---- MODULE Spec2Model ----
(***************************************************************************)
(* Dataset ingestion engine of santo-req (api/services.py, api/api.py):    *)
(* DatasetService.create_or_update_dataset validates one request and then  *)
(* creates or evolves one PostgreSQL table and inserts the rows inside one *)
(* transaction.atomic() block.                                             *)
(*                                                                         *)
(* Names (table names, column names) are tuples of one-character strings,  *)
(* so that the regular expression of the validator and the case folding    *)
(* of the catalog lookup are computed character by character.              *)
(***************************************************************************)
EXTENDS Integers, Sequences, FiniteSets, TLC

\* ------------------------------------------------------------------ bounds
\* rows per request in the engine specification
MaxRows == 2
\* keys per row
MaxCols == 2
\* rows stored in the whole database (requests that would exceed it are not sent)
MaxStoredRows == 3
\* rows per request in the validation specification
MaxValRows == 3

\* ------------------------------------------------------------- characters
LF == "\n"
LowerCase == <<"a","b","c","d","e","f","g","h","i","j","k","l","m",
               "n","o","p","q","r","s","t","u","v","w","x","y","z">>
UpperCase == <<"A","B","C","D","E","F","G","H","I","J","K","L","M",
               "N","O","P","Q","R","S","T","U","V","W","X","Y","Z">>
Digits == <<"0","1","2","3","4","5","6","7","8","9">>
\* the characters of the model in ASCII order (what sorted() compares by)
CharOrder == <<LF, "-">> \o Digits \o UpperCase \o <<"_">> \o LowerCase

Range(s) == {s[i] : i \in DOMAIN s}

\* [a-zA-Z0-9_]
IdentChars == Range(LowerCase) \cup Range(UpperCase) \cup Range(Digits) \cup {"_"}

\* TABLE_NAME_PATTERN / COLUMN_NAME_PATTERN applied with re.match: in Python
\* '$' matches at the end of the string and also just before a newline that
\* is the last character of the string.
ReMatch(name) ==
    /\ Len(name) >= 1
    /\ LET n == IF name[Len(name)] = LF THEN Len(name) - 1 ELSE Len(name)
       IN  /\ n >= 1
           /\ \A i \in 1..n : name[i] \in IdentChars

\* a name that is a non-empty string over A-Z, a-z, 0-9 and underscore
LegalName(name) ==
    /\ Len(name) >= 1
    /\ \A i \in 1..Len(name) : name[i] \in IdentChars

DEFAULT_COLUMN_TYPE == "TEXT"
PRIMARY_KEY_COLUMN == <<"i", "d">>
POSTGREST_NOTIFICATION_CHANNEL == <<"p", "g", "r", "s", "t">>

\* ---------------------------------------------------------------- payloads
\* A request body (table_data) is a sequence of <<key, value>> entries with
\* distinct keys.  A value is a list of rows or something that is no list; a
\* row is a mapping (a sequence of <<key, value>> items with distinct keys,
\* in the order of the JSON object) or something that is no mapping.
NotAList == [isList |-> FALSE, rows |-> <<>>]
List(rows) == [isList |-> TRUE, rows |-> rows]
NotADict == [isDict |-> FALSE, items |-> <<>>]
Dict(items) == [isDict |-> TRUE, items |-> items]

NULL == [col |-> <<>>, row |-> 0]
\* the scalar a request carries in row i under key k
Cell(k, i) == [col |-> k, row |-> i]

Keys(row) == [j \in 1..Len(row.items) |-> row.items[j][1]]
KeySet(row) == {row.items[j][1] : j \in 1..Len(row.items)}
\* row[col]
Get(row, col) == row.items[CHOOSE j \in 1..Len(row.items) : row.items[j][1] = col][2]

\* sequences without repetition over S, of length at most n
RECURSIVE KeySeqs(_, _)
KeySeqs(S, n) ==
    IF n = 0 THEN {<<>>}
    ELSE LET shorter == KeySeqs(S, n - 1)
         IN  shorter \cup {Append(p[1], p[2]) :
                             p \in {x \in shorter \X S : x[2] \notin Range(x[1])}}

RECURSIVE SeqsUpTo(_, _)
SeqsUpTo(S, n) ==
    IF n = 0 THEN {<<>>}
    ELSE LET shorter == SeqsUpTo(S, n - 1)
         IN  shorter \cup {Append(q, x) : q \in shorter, x \in S}

\* -------------------------------------------------------------- exceptions
NoError ==
    [exc |-> "none", kind |-> "none", name |-> <<>>, row |-> 0,
     missing |-> {}, extra |-> {}, existing |-> <<>>, requested |-> <<>>]
ValidationError(kind) == [NoError EXCEPT !.exc = "ValidationError", !.kind = kind]
AttributeError == [NoError EXCEPT !.exc = "AttributeError", !.kind = "AttributeError"]
DatabaseError(kind) == [NoError EXCEPT !.exc = "DatabaseError", !.kind = kind]

\* -------------------------------------------------------------- validation
\* DatasetService.__init__: the fields of a fresh service
NewService == [table_name |-> <<>>, data |-> List(<<>>), columns |-> <<>>]

Ok(self) == [self |-> self, err |-> NoError]
Raise(self, err) == [self |-> self, err |-> err]

\* (mutant) without the check that the request has exactly one key: the first
\* key is taken
_validate_structure_FirstKey(self, table_data) ==
    IF Len(table_data) = 0 THEN Raise(self, ValidationError("EmptyRequest"))
    ELSE LET s == [self EXCEPT !.table_name = table_data[1][1],
                               !.data = table_data[1][2]]
         IN  IF ~s.data.isList
             THEN Raise(s, [ValidationError("NotAnArray") EXCEPT !.name = s.table_name])
             ELSE Ok(s)
_validate_structure(self, table_data) ==
    IF Len(table_data) = 0 THEN Raise(self, ValidationError("EmptyRequest"))
    ELSE IF Len(table_data) # 1 THEN Raise(self, ValidationError("MultipleTables"))
    ELSE LET s == [self EXCEPT !.table_name = table_data[1][1],
                               !.data = table_data[1][2]]
         IN  IF ~s.data.isList
             THEN Raise(s, [ValidationError("NotAnArray") EXCEPT !.name = s.table_name])
             ELSE Ok(s)

_validate_table_name(self) ==
    IF ~ReMatch(self.table_name)
    THEN Raise(self, [ValidationError("InvalidTableName") EXCEPT !.name = self.table_name])
    ELSE Ok(self)

\* (mutant) the list is not checked for being empty
_validate_data_not_empty_Skip(self) == Ok(self)
_validate_data_not_empty(self) ==
    IF Len(self.data.rows) = 0
    THEN Raise(self, [ValidationError("EmptyData") EXCEPT !.name = self.table_name])
    ELSE Ok(self)

_validate_columns(self) ==
    IF Len(self.data.rows) = 0 THEN Ok(self)
    ELSE LET first_row == self.data.rows[1]
         IN  IF ~first_row.isDict THEN Raise(self, ValidationError("RowNotObject"))
             ELSE LET s == [self EXCEPT !.columns = Keys(first_row)]
                      bad == {j \in 1..Len(s.columns) : ~ReMatch(s.columns[j])}
                  IN  IF bad # {}
                      THEN LET j == CHOOSE j \in bad : \A k \in bad : j <= k
                           IN  Raise(s, [ValidationError("InvalidColumnName")
                                            EXCEPT !.name = s.columns[j]])
                      ELSE Ok(s)

\* (mutant) enumerate(self.data) without start=1: the row is counted from 0
_validate_data_consistency_ZeroBased(self) ==
    IF Len(self.data.rows) = 0 THEN Ok(self)
    ELSE LET expected_columns == Range(self.columns)
             stops == {idx \in 1..Len(self.data.rows) :
                          \/ ~self.data.rows[idx].isDict
                          \/ KeySet(self.data.rows[idx]) # expected_columns}
         IN  IF stops = {} THEN Ok(self)
             ELSE LET idx == CHOOSE i \in stops : \A k \in stops : i <= k
                      row == self.data.rows[idx]
                  IN  IF ~row.isDict THEN Raise(self, AttributeError)
                      ELSE Raise(self, [ValidationError("InconsistentColumns") EXCEPT
                                          !.row = idx - 1,
                                          !.missing = expected_columns \ KeySet(row),
                                          !.extra = KeySet(row) \ expected_columns])

_validate_data_consistency(self) ==
    IF Len(self.data.rows) = 0 THEN Ok(self)
    ELSE LET expected_columns == Range(self.columns)
             \* the rows at which the loop stops: row.keys() raises on anything
             \* that is no mapping, and a differing key set raises
             stops == {idx \in 1..Len(self.data.rows) :
                          \/ ~self.data.rows[idx].isDict
                          \/ KeySet(self.data.rows[idx]) # expected_columns}
         IN  IF stops = {} THEN Ok(self)
             ELSE LET idx == CHOOSE i \in stops : \A k \in stops : i <= k
                      row == self.data.rows[idx]
                  IN  IF ~row.isDict THEN Raise(self, AttributeError)
                      ELSE Raise(self, [ValidationError("InconsistentColumns") EXCEPT
                                          !.row = idx,
                                          !.missing = expected_columns \ KeySet(row),
                                          !.extra = KeySet(row) \ expected_columns])

\* create_or_update_dataset, step 1: the five validations in the order of the
\* calls; the first exception ends the call
Validate(table_data) ==
    LET r1 == _validate_structure(NewService, table_data)
        r2 == IF r1.err # NoError THEN r1 ELSE _validate_table_name(r1.self)
        r3 == IF r2.err # NoError THEN r2 ELSE _validate_columns(r2.self)
        r4 == IF r3.err # NoError THEN r3 ELSE _validate_data_not_empty(r3.self)
    IN  IF r4.err # NoError THEN r4 ELSE _validate_data_consistency(r4.self)

\* ---------------------------------------------------------------- database
\* The catalog and the row storage of PostgreSQL as the statements of the
\* service see them: a function from the table names that exist to
\* [columns: the columns in definition order, rows: the stored rows in
\* primary-key order].  A stored row is a function from the table's columns
\* other than the primary key to the stored scalar or NULL.
EmptyDatabase == << >>

UserColumns(t) == Range(t.columns) \ {PRIMARY_KEY_COLUMN}

ToLower(c) == IF \E i \in 1..Len(UpperCase) : UpperCase[i] = c
              THEN LowerCase[CHOOSE i \in 1..Len(UpperCase) : UpperCase[i] = c]
              ELSE c

\* to_regclass(text) reads its argument as an SQL identifier that is not
\* quoted: surrounding whitespace is dropped and letters are folded to lower
\* case
Unquoted(name) ==
    LET n == IF Len(name) >= 1 /\ name[Len(name)] = LF THEN Len(name) - 1 ELSE Len(name)
    IN  [i \in 1..n |-> ToLower(name[i])]

\* SELECT to_regclass(%s) ... result is not None
_table_exists(cat, table_name) == Unquoted(table_name) \in DOMAIN cat

\* SELECT column_name FROM information_schema.columns
\* WHERE table_name = %s AND column_name != %s
_get_existing_columns(cat, table_name) ==
    IF table_name \in DOMAIN cat THEN UserColumns(cat[table_name]) ELSE {}

Done(cat) == [err |-> "none", cat |-> cat]
Fails(cat, err) == [err |-> err, cat |-> cat]

HasDuplicates(q) == \E i, j \in 1..Len(q) : i # j /\ q[i] = q[j]

\* (mutant) a statement on one table empties the other tables
Put_Truncating(cat, name, t) ==
    [n \in DOMAIN cat \cup {name} |-> IF n = name THEN t ELSE [cat[n] EXCEPT !.rows = <<>>]]
Put(cat, name, t) ==
    [n \in DOMAIN cat \cup {name} |-> IF n = name THEN t ELSE cat[n]]

\* (mutant) the table is dropped first when it exists
_create_new_table_Replace(cat, table_name, cols) ==
    IF cols = <<>> THEN Fails(cat, "SyntaxError")
    ELSE IF HasDuplicates(<<PRIMARY_KEY_COLUMN>> \o cols) THEN Fails(cat, "DuplicateColumn")
    ELSE Done(Put(cat, table_name,
                  [columns |-> <<PRIMARY_KEY_COLUMN>> \o cols, rows |-> <<>>]))

\* CREATE TABLE {table_name} ({id} SERIAL PRIMARY KEY, {col} TEXT, ...)
_create_new_table(cat, table_name, cols) ==
    IF cols = <<>> THEN Fails(cat, "SyntaxError")
    ELSE IF table_name \in DOMAIN cat THEN Fails(cat, "DuplicateTable")
    ELSE IF HasDuplicates(<<PRIMARY_KEY_COLUMN>> \o cols) THEN Fails(cat, "DuplicateColumn")
    ELSE Done(Put(cat, table_name,
                  [columns |-> <<PRIMARY_KEY_COLUMN>> \o cols, rows |-> <<>>]))

\* (mutant) the ALTER TABLE succeeds and adds nothing
AddColumn_Skip(cat, table_name, column_name) == Done(cat)
\* ALTER TABLE {table_name} ADD COLUMN {column_name} TEXT
AddColumn(cat, table_name, column_name) ==
    IF table_name \notin DOMAIN cat THEN Fails(cat, "UndefinedTable")
    ELSE LET t == cat[table_name]
         IN  IF column_name \in Range(t.columns) THEN Fails(cat, "DuplicateColumn")
             ELSE Done(Put(cat, table_name,
                      [columns |-> Append(t.columns, column_name),
                       rows |-> [i \in 1..Len(t.rows) |->
                                   [c \in UserColumns(t) \cup {column_name} |->
                                       IF c = column_name THEN NULL ELSE t.rows[i][c]]]]))

\* (mutant) the INSERT succeeds and stores nothing
InsertRow_Drop(cat, table_name, row) == Done(cat)
\* INSERT INTO {table_name} ({column_names}) VALUES (%s, ...) with the row's
\* values bound in the order of column_names
InsertRow(cat, table_name, row) ==
    LET column_names == Keys(row)
        values == [j \in 1..Len(column_names) |-> Get(row, column_names[j])]
    IN  IF column_names = <<>> THEN Fails(cat, "SyntaxError")
        ELSE IF table_name \notin DOMAIN cat THEN Fails(cat, "UndefinedTable")
        ELSE LET t == cat[table_name]
             IN  IF \E j \in 1..Len(column_names) : column_names[j] \notin Range(t.columns)
                 THEN Fails(cat, "UndefinedColumn")
                 ELSE IF PRIMARY_KEY_COLUMN \in Range(column_names)
                 THEN Fails(cat, "InvalidTextRepresentation")
                 ELSE Done(Put(cat, table_name,
                          [t EXCEPT !.rows = Append(t.rows,
                              [c \in UserColumns(t) |->
                                  IF c \in Range(column_names)
                                  THEN values[CHOOSE j \in 1..Len(column_names) :
                                                  column_names[j] = c]
                                  ELSE NULL])]))

TotalRows(cat) ==
    LET RECURSIVE Sum(_)
        Sum(S) == IF S = {} THEN 0
                  ELSE LET n == CHOOSE x \in S : TRUE
                       IN  Len(cat[n].rows) + Sum(S \ {n})
    IN  Sum(DOMAIN cat)

\* sorted(): names compared character by character in ASCII order
Rank(c) == CHOOSE i \in 1..Len(CharOrder) : CharOrder[i] = c
NameLess(a, b) ==
    \E i \in 1..Len(b) :
        /\ \A j \in 1..(i - 1) : j <= Len(a) /\ a[j] = b[j]
        /\ \/ i = Len(a) + 1
           \/ i <= Len(a) /\ Rank(a[i]) < Rank(b[i])
RECURSIVE Sorted(_)
Sorted(S) ==
    IF S = {} THEN <<>>
    ELSE LET m == CHOOSE x \in S : \A y \in S : x = y \/ NameLess(x, y)
         IN  <<m>> \o Sorted(S \ {m})

\* transaction.atomic(): leaving the block normally commits the working
\* state, leaving it by an exception restores the committed state
\* (mutant) the commit is lost
Commit_Lost(committed, working) == committed
Commit(committed, working) == working
\* (mutant) the statements of a failed call are kept, as without the block
Rollback_Keep(committed, working) == working
Rollback(committed, working) == committed

\* ------------------------------------------------------------------- state
VARIABLES
    db,               \* the committed database
    tx,               \* the database as the open transaction sees it
    pc,               \* where create_or_update_dataset stands
    table_data,       \* the request body given to DatasetService
    table_name,       \* self.table_name
    data,             \* self.data
    columns,          \* self.columns
    missing_columns,  \* the columns _add_missing_columns has still to add
    rows_inserted,    \* the counter of _insert_data
    stmts,            \* the statements the cursor has executed in this call
    signal,           \* the NOTIFY of this call: "none", "queued", "delivered"
    result,           \* what the call returned or raised
    pre,              \* the committed database when the call began
    fault,            \* an infrastructure failure was injected in this call
    sessions,         \* the calls running at once, each on its own connection
    accepted,         \* per table name, what the calls that returned asked for
    response          \* what create_dataset answered to the last call

vars == <<db, tx, pc, table_data, table_name, data, columns, missing_columns,
          rows_inserted, stmts, signal, result, pre, fault, sessions, accepted, response>>

NoResult == [status |-> "none", table_name |-> <<>>, rows_inserted |-> 0, err |-> NoError]
Returned(name, n) ==
    [status |-> "returned", table_name |-> name, rows_inserted |-> n, err |-> NoError]
Raised(err) == [status |-> "raised", table_name |-> <<>>, rows_inserted |-> 0, err |-> err]

\* psycopg2.sql: a query is composed of pieces of SQL text, quoted
\* identifiers and placeholders; the values are handed over beside it
SQL(text) == [slot |-> "SQL", text |-> text, name |-> <<>>]
Identifier(name) == [slot |-> "Identifier", text |-> "", name |-> name]
Placeholder == [slot |-> "Placeholder", text |-> "", name |-> <<>>]
RECURSIVE Join(_, _)
Join(sep, parts) ==
    IF parts = <<>> THEN <<>>
    ELSE IF Len(parts) = 1 THEN parts[1]
    ELSE parts[1] \o <<sep>> \o Join(sep, Tail(parts))
Composed(text, args) == [text |-> text, args |-> args]

TableExistsQuery(table) ==
    Composed(<<SQL("SELECT to_regclass("), Placeholder, SQL(")")>>, <<table>>)
ExistingColumnsQuery(table) ==
    Composed(<<SQL("SELECT column_name FROM information_schema.columns WHERE table_name = "),
               Placeholder, SQL(" AND column_name != "), Placeholder>>,
             <<table, PRIMARY_KEY_COLUMN>>)
AddColumnQuery(table, column) ==
    Composed(<<SQL("ALTER TABLE "), Identifier(table), SQL(" ADD COLUMN "),
               Identifier(column), SQL(" "), SQL(DEFAULT_COLUMN_TYPE)>>, <<>>)
CreateTableQuery(table, cols) ==
    LET column_definitions ==
            [j \in 1..Len(cols) |-> <<Identifier(cols[j]), SQL(" "), SQL(DEFAULT_COLUMN_TYPE)>>]
    IN  Composed(<<SQL("CREATE TABLE "), Identifier(table), SQL(" ("),
                   Identifier(PRIMARY_KEY_COLUMN), SQL(" SERIAL PRIMARY KEY, ")>>
                 \o Join(SQL(", "), column_definitions) \o <<SQL(")")>>, <<>>)
\* (mutant) the values are written into the text of the INSERT
InsertQuery_Literal(table, names, values) ==
    Composed(<<SQL("INSERT INTO "), Identifier(table), SQL(" (")>>
             \o Join(SQL(", "), [j \in 1..Len(names) |-> <<Identifier(names[j])>>])
             \o <<SQL(") VALUES (")>>
             \o Join(SQL(", "), [j \in 1..Len(values) |-> <<SQL("'value'")>>])
             \o <<SQL(")")>>, <<>>)
InsertQuery(table, names, values) ==
    Composed(<<SQL("INSERT INTO "), Identifier(table), SQL(" (")>>
             \o Join(SQL(", "), [j \in 1..Len(names) |-> <<Identifier(names[j])>>])
             \o <<SQL(") VALUES (")>>
             \o Join(SQL(", "), [j \in 1..Len(values) |-> <<Placeholder>>])
             \o <<SQL(")")>>, values)
NotifyQuery == Composed(<<SQL("NOTIFY "), Identifier(POSTGREST_NOTIFICATION_CHANNEL)>>, <<>>)

\* cursor.execute: the statement as the model acts on it, with its query
Query(op, table, cols, params) ==
    IF op = "SELECT to_regclass" THEN TableExistsQuery(table)
    ELSE IF op = "SELECT column_name" THEN ExistingColumnsQuery(table)
    ELSE IF op = "CREATE TABLE" THEN CreateTableQuery(table, Tail(cols))
    ELSE IF op = "ALTER TABLE ADD COLUMN" THEN AddColumnQuery(table, cols[1])
    ELSE IF op = "INSERT INTO" THEN InsertQuery(table, cols, params)
    ELSE NotifyQuery
Stmt(op, table, cols, params) ==
    [op |-> op, table |-> table, cols |-> cols, params |-> params,
     query |-> Query(op, table, cols, params)]

\* create_dataset: the answer of the endpoint to the outcome of the service
NoResponse == [status |-> 0, table_name |-> <<>>, rows_inserted |-> 0, error |-> NoError]
\* (mutant) every exception is answered as an internal error
create_dataset_AllInternal(outcome) ==
    IF outcome.status = "returned"
    THEN [status |-> 200, table_name |-> outcome.table_name,
          rows_inserted |-> outcome.rows_inserted, error |-> NoError]
    ELSE [status |-> 500, table_name |-> <<>>, rows_inserted |-> 0, error |-> outcome.err]
create_dataset(outcome) ==
    IF outcome.status = "returned"
    THEN [status |-> 200, table_name |-> outcome.table_name,
          rows_inserted |-> outcome.rows_inserted, error |-> NoError]
    ELSE IF outcome.err.exc = "ValidationError"
    THEN [status |-> 400, table_name |-> <<>>, rows_inserted |-> 0, error |-> outcome.err]
    ELSE [status |-> 500, table_name |-> <<>>, rows_inserted |-> 0, error |-> outcome.err]

\* the requests that returned, summed up per table name: the union of their
\* column sets and the sum of their row counts
NothingAccepted == << >>
Accept(acc, td) ==
    LET name == td[1][1]
        rows == td[1][2].rows
        old == IF name \in DOMAIN acc THEN acc[name] ELSE [columns |-> {}, rows |-> 0]
        new == [columns |-> old.columns \cup KeySet(rows[1]),
                rows |-> old.rows + Len(rows)]
    IN  [n \in DOMAIN acc \cup {name} |-> IF n = name THEN new ELSE acc[n]]

\* no call runs beside the one of create_or_update_dataset
NoSessions == << >>

NumRows(td) == IF Len(td) = 1 /\ td[1][2].isList THEN Len(td[1][2].rows) ELSE 0

\* ------------------------------------------------------------------ inputs
\* the row of a request with the given keys in the given order, as row i
MkRow(keys, i) == Dict([j \in 1..Len(keys) |-> <<keys[j], Cell(keys[j], i)>>])
Shape(keys) == [isDict |-> TRUE, keys |-> keys]
NoDictShape == [isDict |-> FALSE, keys |-> <<>>]
MkRows(shapes) ==
    [i \in 1..Len(shapes) |->
        IF shapes[i].isDict THEN MkRow(shapes[i].keys, i) ELSE NotADict]
Request(name, value) == << <<name, value>> >>

Reverse(q) == [i \in 1..Len(q) |-> q[Len(q) + 1 - i]]

EngineTableNames == {<<"t">>, <<"T">>, <<"t", LF>>}
EngineColumns == {<<"a">>, <<"b">>, PRIMARY_KEY_COLUMN}

\* row sequences in which every row carries the key set of the first row, in
\* its order or in the opposite order
ConsistentRows(k) ==
    {MkRows(<<Shape(k)>> \o [i \in 1..Len(f) |-> Shape(IF f[i] THEN k ELSE Reverse(k))]) :
        f \in SeqsUpTo(BOOLEAN, MaxRows - 1)}

ConsistentRequests ==
    {Request(n, List(rows)) :
        n \in EngineTableNames,
        rows \in UNION {ConsistentRows(k) : k \in KeySeqs(EngineColumns, MaxCols)}}

\* one request for each way validation rejects
RejectedRequests ==
    LET t == <<"t">>
        a == <<"a">>
        b == <<"b">>
    IN  { <<>>,
          << <<t, List(MkRows(<<Shape(<<a>>)>>))>>, <<<<"T">>, List(MkRows(<<Shape(<<a>>)>>))>> >>,
          Request(t, NotAList),
          Request(t, List(<<>>)),
          Request(<<"t", "-">>, List(MkRows(<<Shape(<<a>>)>>))),
          Request(t, List(MkRows(<<NoDictShape>>))),
          Request(t, List(MkRows(<<Shape(<<<<"a", "-">>>>)>>))),
          Request(t, List(MkRows(<<Shape(<<a>>), NoDictShape>>))),
          Request(t, List(MkRows(<<Shape(<<a>>), Shape(<<b>>)>>))),
          Request(t, List(MkRows(<<Shape(<<a, b>>), Shape(<<a>>)>>))) }

EngineInputs == ConsistentRequests \cup RejectedRequests

\* the requests of the validation specification: every table name below with
\* every row sequence of at most n rows, each row no mapping or a mapping
\* with the keys of one of the shapes below
ValTableNames == {<<>>, <<"t">>, <<"T">>, <<"t", LF>>, <<"t", "-">>}
ValColumns == {<<"a">>, <<"b">>, <<"a", LF>>, <<"a", "-">>}
ValShapes ==
    {NoDictShape, Shape(<<>>)} \cup {Shape(<<k>>) : k \in ValColumns}
        \cup {Shape(q) : q \in { <<<<"a">>, <<"b">>>>, <<<<"b">>, <<"a">>>>,
                                 <<<<"a">>, <<"a", "-">>>>, <<<<"a", "-">>, <<"a">>>>,
                                 <<<<"a">>, <<"a", LF>>>>, <<<<"a", "-">>, <<"a", LF>>>> }}
ValidationInputs(n) ==
    { <<>>,
      << <<<<"t">>, List(<<>>)>>, <<<<"t", "-">>, NotAList>> >> }
    \cup {Request(name, NotAList) : name \in ValTableNames}
    \cup {Request(name, List(MkRows(q))) :
              name \in ValTableNames, q \in SeqsUpTo(ValShapes, n)}

\* ----------------------------------------------------------------- actions
Init ==
    /\ db = EmptyDatabase
    /\ tx = EmptyDatabase
    /\ pc = "idle"
    /\ table_data = <<>>
    /\ table_name = NewService.table_name
    /\ data = NewService.data
    /\ columns = NewService.columns
    /\ missing_columns = {}
    /\ rows_inserted = 0
    /\ stmts = <<>>
    /\ signal = "none"
    /\ result = NoResult
    /\ pre = EmptyDatabase
    /\ fault = FALSE
    /\ sessions = NoSessions
    /\ accepted = NothingAccepted
    /\ response = NoResponse

\* (mutant) the NOTIFY is sent at once and not held back until the commit
Abort_Notified(err) ==
    /\ pc' = "done"
    /\ result' = Raised(err)
    /\ db' = Rollback(db, tx)
    /\ tx' = Rollback(db, tx)
    /\ signal' = IF signal = "queued" THEN "delivered" ELSE "none"

\* an exception leaves the atomic block: the transaction is rolled back and
\* create_or_update_dataset re-raises
Abort(err) ==
    /\ pc' = "done"
    /\ result' = Raised(err)
    /\ db' = Rollback(db, tx)
    /\ tx' = Rollback(db, tx)
    /\ signal' = "none"

Failure == DatabaseError("OperationalError")

\* DatasetService(table_data).create_or_update_dataset(), step 1
Call(td) ==
    /\ pc = "idle"
    /\ TotalRows(db) + NumRows(td) <= MaxStoredRows
    /\ LET r == Validate(td)
       IN  /\ table_data' = td
           /\ table_name' = r.self.table_name
           /\ data' = r.self.data
           /\ columns' = r.self.columns
           /\ IF r.err = NoError
              THEN pc' = "atomic" /\ result' = NoResult
              ELSE pc' = "done" /\ result' = Raised(r.err)
    /\ pre' = db
    /\ UNCHANGED <<sessions, response, accepted, db, tx, missing_columns, rows_inserted, stmts, signal, fault>>

\* with transaction.atomic(): with connection.cursor() as cursor:
EnterAtomic(ok) ==
    /\ pc = "atomic"
    /\ IF ok
       THEN /\ pc' = "table_exists"
            /\ tx' = db
            /\ UNCHANGED <<db, result, signal, fault>>
       ELSE Abort(Failure) /\ fault' = TRUE
    /\ UNCHANGED <<sessions, response, accepted, table_data, table_name, data, columns, missing_columns,
                   rows_inserted, stmts, pre>>

\* _process_table_and_data: if self._table_exists(cursor)
TableExists(ok) ==
    /\ pc = "table_exists"
    /\ stmts' = Append(stmts, Stmt("SELECT to_regclass", table_name, <<>>, <<>>))
    /\ IF ok
       THEN /\ pc' = IF _table_exists(tx, table_name)
                     THEN "handle_existing_table" ELSE "create_new_table"
            /\ UNCHANGED <<db, tx, result, signal, fault>>
       ELSE Abort(Failure) /\ fault' = TRUE
    /\ UNCHANGED <<sessions, response, accepted, table_data, table_name, data, columns, missing_columns,
                   rows_inserted, pre>>

\* _handle_existing_table up to the call of _add_missing_columns
HandleExistingTable(ok) ==
    /\ pc = "handle_existing_table"
    /\ stmts' = Append(stmts, Stmt("SELECT column_name", table_name, <<>>, <<>>))
    /\ LET existing_columns == _get_existing_columns(tx, table_name)
           new_columns == Range(columns)
           shared_columns == existing_columns \cap new_columns
       IN  IF ~ok
           THEN Abort(Failure) /\ fault' = TRUE /\ UNCHANGED missing_columns
           ELSE IF shared_columns = {}
           THEN /\ Abort([ValidationError("NoSharedColumns") EXCEPT
                             !.name = table_name,
                             !.existing = Sorted(existing_columns),
                             !.requested = Sorted(new_columns)])
                /\ UNCHANGED <<missing_columns, fault>>
           ELSE /\ missing_columns' = new_columns \ existing_columns
                /\ pc' = IF new_columns \ existing_columns # {}
                         THEN "add_missing_columns" ELSE "insert_data"
                /\ UNCHANGED <<db, tx, result, signal, fault>>
    /\ UNCHANGED <<sessions, response, accepted, table_data, table_name, data, columns, rows_inserted, pre>>

\* _add_missing_columns: one turn of the loop over the set
AddMissingColumns(column_name, ok) ==
    /\ pc = "add_missing_columns"
    /\ column_name \in missing_columns
    /\ stmts' = Append(stmts, Stmt("ALTER TABLE ADD COLUMN", table_name,
                                   <<column_name>>, <<>>))
    /\ LET r == AddColumn(tx, table_name, column_name)
       IN  IF ~ok
           THEN Abort(Failure) /\ fault' = TRUE /\ UNCHANGED missing_columns
           ELSE IF r.err # "none"
           THEN Abort(DatabaseError(r.err)) /\ UNCHANGED <<missing_columns, fault>>
           ELSE /\ tx' = r.cat
                /\ missing_columns' = missing_columns \ {column_name}
                /\ pc' = IF missing_columns \ {column_name} = {}
                         THEN "insert_data" ELSE "add_missing_columns"
                /\ UNCHANGED <<db, result, signal, fault>>
    /\ UNCHANGED <<sessions, response, accepted, table_data, table_name, data, columns, rows_inserted, pre>>

\* _create_new_table
CreateNewTable(ok) ==
    /\ pc = "create_new_table"
    /\ stmts' = Append(stmts, Stmt("CREATE TABLE", table_name,
                                   <<PRIMARY_KEY_COLUMN>> \o columns, <<>>))
    /\ LET r == _create_new_table(tx, table_name, columns)
       IN  IF ~ok
           THEN Abort(Failure) /\ fault' = TRUE
           ELSE IF r.err # "none"
           THEN Abort(DatabaseError(r.err)) /\ UNCHANGED fault
           ELSE /\ tx' = r.cat
                /\ pc' = "insert_data"
                /\ UNCHANGED <<db, result, signal, fault>>
    /\ UNCHANGED <<sessions, response, accepted, table_data, table_name, data, columns, missing_columns,
                   rows_inserted, pre>>

\* _insert_data: one turn of the loop over self.data
InsertData(ok) ==
    /\ pc = "insert_data"
    /\ LET row == data.rows[rows_inserted + 1]
           r == InsertRow(tx, table_name, row)
       IN  /\ stmts' = Append(stmts, Stmt("INSERT INTO", table_name, Keys(row),
                                [j \in 1..Len(row.items) |-> row.items[j][2]]))
           /\ IF ~ok
              THEN Abort(Failure) /\ fault' = TRUE /\ UNCHANGED rows_inserted
              ELSE IF r.err # "none"
              THEN Abort(DatabaseError(r.err)) /\ UNCHANGED <<rows_inserted, fault>>
              ELSE /\ tx' = r.cat
                   /\ rows_inserted' = rows_inserted + 1
                   /\ pc' = IF rows_inserted + 1 = Len(data.rows)
                            THEN "notify_postgrest" ELSE "insert_data"
                   /\ UNCHANGED <<db, result, signal, fault>>
    /\ UNCHANGED <<sessions, response, accepted, table_data, table_name, data, columns, missing_columns, pre>>

\* (mutant) a failure of the NOTIFY is swallowed and the call goes on to commit
NotifyPostgrest_Swallow(ok) ==
    /\ pc = "notify_postgrest"
    /\ stmts' = Append(stmts, Stmt("NOTIFY", POSTGREST_NOTIFICATION_CHANNEL, <<>>, <<>>))
    /\ pc' = "commit"
    /\ signal' = IF ok THEN "queued" ELSE "none"
    /\ fault' = (fault \/ ~ok)
    /\ UNCHANGED <<db, tx, result>>
    /\ UNCHANGED <<sessions, response, accepted, table_data, table_name, data, columns, missing_columns,
                   rows_inserted, pre>>

\* _notify_postgrest
NotifyPostgrest(ok) ==
    /\ pc = "notify_postgrest"
    /\ stmts' = Append(stmts, Stmt("NOTIFY", POSTGREST_NOTIFICATION_CHANNEL, <<>>, <<>>))
    /\ IF ok
       THEN /\ pc' = "commit"
            /\ signal' = "queued"
            /\ UNCHANGED <<db, tx, result, fault>>
       ELSE Abort(Failure) /\ fault' = TRUE
    /\ UNCHANGED <<sessions, response, accepted, table_data, table_name, data, columns, missing_columns,
                   rows_inserted, pre>>

\* the atomic block is left normally: commit, then return
ExitAtomic(ok) ==
    /\ pc = "commit"
    /\ IF ok
       THEN /\ db' = Commit(db, tx)
            /\ tx' = Commit(db, tx)
            /\ signal' = "delivered"
            /\ pc' = "done"
            /\ result' = Returned(table_name, rows_inserted)
            /\ accepted' = Accept(accepted, table_data)
            /\ UNCHANGED fault
       ELSE Abort(Failure) /\ fault' = TRUE /\ UNCHANGED accepted
    /\ UNCHANGED <<sessions, response, table_data, table_name, data, columns, missing_columns,
                   rows_inserted, stmts, pre>>

\* create_dataset turns the outcome of the service into its answer
Respond ==
    /\ pc = "done"
    /\ response = NoResponse
    /\ response' = create_dataset(result)
    /\ UNCHANGED <<sessions, accepted, db, tx, pc, table_data, table_name, data, columns,
                   missing_columns, rows_inserted, stmts, signal, result, pre, fault>>

\* the caller has the answer; the service object is dropped
Return ==
    /\ pc = "done"
    /\ response # NoResponse
    /\ response' = NoResponse
    /\ pc' = "idle"
    /\ table_data' = <<>>
    /\ table_name' = NewService.table_name
    /\ data' = NewService.data
    /\ columns' = NewService.columns
    /\ missing_columns' = {}
    /\ rows_inserted' = 0
    /\ stmts' = <<>>
    /\ signal' = "none"
    /\ result' = NoResult
    /\ pre' = db
    /\ fault' = FALSE
    /\ UNCHANGED <<sessions, accepted, db, tx>>

Next ==
    \/ \E td \in EngineInputs : Call(td)
    \/ \E ok \in BOOLEAN : EnterAtomic(ok)
    \/ \E ok \in BOOLEAN : TableExists(ok)
    \/ \E ok \in BOOLEAN : HandleExistingTable(ok)
    \/ \E c \in missing_columns, ok \in BOOLEAN : AddMissingColumns(c, ok)
    \/ \E ok \in BOOLEAN : CreateNewTable(ok)
    \/ \E ok \in BOOLEAN : InsertData(ok)
    \/ \E ok \in BOOLEAN : NotifyPostgrest(ok)
    \/ \E ok \in BOOLEAN : ExitAtomic(ok)
    \/ Respond
    \/ Return

Spec == Init /\ [][Next]_vars

\* The validation specification: a request from ValidationInputs is given to
\* create_or_update_dataset, which validates it.
InitValidate ==
    /\ db = EmptyDatabase
    /\ tx = EmptyDatabase
    /\ pc = "idle"
    /\ table_data \in ValidationInputs(MaxValRows)
    /\ table_name = NewService.table_name
    /\ data = NewService.data
    /\ columns = NewService.columns
    /\ missing_columns = {}
    /\ rows_inserted = 0
    /\ stmts = <<>>
    /\ signal = "none"
    /\ result = NoResult
    /\ pre = EmptyDatabase
    /\ fault = FALSE
    /\ sessions = NoSessions
    /\ accepted = NothingAccepted
    /\ response = NoResponse

NextValidate == Call(table_data)

SpecValidate == InitValidate /\ [][NextValidate]_vars

\* ------------------------------------------------------- concurrent calls
\* Two requests are served at once, each by its own DatasetService on its own
\* connection, in PostgreSQL's READ COMMITTED mode: a statement sees the
\* committed database and the writes of its own transaction.
Procs == {1, 2}
NewSession ==
    [pc |-> "idle", table_data |-> <<>>, table_name |-> NewService.table_name,
     data |-> NewService.data, columns |-> NewService.columns,
     missing_columns |-> {}, rows_inserted |-> 0,
     writes |-> <<>>,        \* the uncommitted writes of the transaction
     attempts |-> 0,         \* how often the atomic block was entered
     observed |-> "none",    \* what _table_exists answered
     decided |-> {},         \* the columns _handle_existing_table found missing
     signal |-> "none", result |-> NoResult]

Write(kind, arg) == [kind |-> kind, arg |-> arg]
ApplyWrite(cat, name, w) ==
    IF w.kind = "CREATE TABLE" THEN _create_new_table(cat, name, w.arg)
    ELSE IF w.kind = "ALTER TABLE ADD COLUMN" THEN AddColumn(cat, name, w.arg)
    ELSE InsertRow(cat, name, w.arg)
RECURSIVE Replay(_, _, _)
Replay(cat, name, ws) ==
    IF ws = <<>> THEN cat
    ELSE Replay(ApplyWrite(cat, name, Head(ws)).cat, name, Tail(ws))
\* the database as the transaction of session s sees it
View(committed, s) == Replay(committed, s.table_name, s.writes)

\* the locks of an open transaction on the table it writes: CREATE TABLE
\* keeps the new name to itself, ALTER TABLE holds ACCESS EXCLUSIVE, INSERT
\* holds ROW EXCLUSIVE, all until the transaction ends
InTransaction(s) == s.pc \notin {"idle", "atomic", "done"}
Wrote(s, kinds) == \E i \in 1..Len(s.writes) : s.writes[i].kind \in kinds
Waits(p, kinds) ==
    \E q \in Procs \ {p} :
        /\ InTransaction(sessions[q])
        /\ sessions[q].table_name = sessions[p].table_name
        /\ Wrote(sessions[q], kinds)
CreateWaits(p) == Waits(p, {"CREATE TABLE"})
AlterWaits(p) == Waits(p, {"CREATE TABLE", "ALTER TABLE ADD COLUMN", "INSERT INTO"})
InsertWaits(p) == Waits(p, {"CREATE TABLE", "ALTER TABLE ADD COLUMN"})

\* One call run by itself on the database cat, from validation to commit or
\* rollback: _add_missing_columns and _insert_data as loops over their
\* statements, stopped by the first that fails.
RECURSIVE ExecuteAll(_, _, _)
ExecuteAll(cat, name, ws) ==
    IF ws = <<>> THEN Done(cat)
    ELSE LET r == ApplyWrite(cat, name, Head(ws))
         IN  IF r.err # "none" THEN r ELSE ExecuteAll(r.cat, name, Tail(ws))

_process_table_and_data(cat, self) ==
    LET inserts == [i \in 1..Len(self.data.rows) |-> Write("INSERT INTO", self.data.rows[i])]
    IN  IF _table_exists(cat, self.table_name)
        THEN LET existing_columns == _get_existing_columns(cat, self.table_name)
                 new_columns == Range(self.columns)
                 missing == Sorted(new_columns \ existing_columns)
                 alters == [j \in 1..Len(missing) |->
                               Write("ALTER TABLE ADD COLUMN", missing[j])]
             IN  IF existing_columns \cap new_columns = {}
                 THEN [cat |-> cat,
                       err |-> [ValidationError("NoSharedColumns") EXCEPT
                                   !.name = self.table_name,
                                   !.existing = Sorted(existing_columns),
                                   !.requested = Sorted(new_columns)]]
                 ELSE LET r == ExecuteAll(cat, self.table_name, alters \o inserts)
                      IN  [cat |-> r.cat,
                           err |-> IF r.err = "none" THEN NoError ELSE DatabaseError(r.err)]
        ELSE LET r == ExecuteAll(cat, self.table_name,
                                 <<Write("CREATE TABLE", self.columns)>> \o inserts)
             IN  [cat |-> r.cat,
                  err |-> IF r.err = "none" THEN NoError ELSE DatabaseError(r.err)]

create_or_update_dataset(cat, td) ==
    LET v == Validate(td)
    IN  IF v.err # NoError THEN [cat |-> cat, result |-> Raised(v.err)]
        ELSE LET r == _process_table_and_data(cat, v.self)
             IN  IF r.err # NoError
                 THEN [cat |-> Rollback(cat, r.cat), result |-> Raised(r.err)]
                 ELSE [cat |-> Commit(cat, r.cat),
                       result |-> Returned(v.self.table_name, Len(v.self.data.rows))]

\* the requests and the databases of the concurrent specification: one row
\* each, the values of session p marked p, the stored row marked 0
ConcTableNames == {<<"t">>, <<"u">>, <<"T">>}
ConcKeys ==
    { <<<<"a">>>>, <<<<"a">>, <<"b">>>>, <<<<"a">>, <<"c">>>>,
      <<<<"a">>, <<"b">>, <<"c">>>>, <<<<"a">>, PRIMARY_KEY_COLUMN>>,
      <<<<"a">>, <<"b">>, PRIMARY_KEY_COLUMN>> }
ConcRequests(p) ==
    {Request(n, List(<<MkRow(k, p)>>)) : n \in ConcTableNames, k \in ConcKeys}
ConcDatabases ==
    { EmptyDatabase,
      InsertRow(_create_new_table(EmptyDatabase, <<"t">>, <<<<"a">>>>).cat,
                <<"t">>, MkRow(<<<<"a">>>>, 0)).cat }

SetSession(p, s) == sessions' = [sessions EXCEPT ![p] = s]
OneCallUnchanged ==
    UNCHANGED <<tx, pc, table_data, table_name, data, columns, missing_columns,
                rows_inserted, stmts, signal, result, pre, fault, accepted, response>>

InitConcurrent ==
    /\ db \in ConcDatabases
    /\ pre = db
    /\ sessions = [p \in Procs |-> NewSession]
    /\ accepted = NothingAccepted
    /\ response = NoResponse
    /\ tx = EmptyDatabase
    /\ pc = "idle"
    /\ table_data = <<>>
    /\ table_name = NewService.table_name
    /\ data = NewService.data
    /\ columns = NewService.columns
    /\ missing_columns = {}
    /\ rows_inserted = 0
    /\ stmts = <<>>
    /\ signal = "none"
    /\ result = NoResult
    /\ fault = FALSE

\* an exception leaves the atomic block of session p
SessionAbort(p, err) ==
    /\ SetSession(p, [sessions[p] EXCEPT !.pc = "done", !.result = Raised(err),
                                         !.writes = <<>>, !.signal = "none"])
    /\ db' = Rollback(db, View(db, sessions[p]))

\* a statement of session p has succeeded
SessionStep(p, s) == SetSession(p, s) /\ UNCHANGED db

\* DatasetService(td).create_or_update_dataset() in session p: validation
SessionCall(p, td) ==
    /\ sessions[p].pc = "idle"
    /\ sessions[p].result = NoResult
    /\ LET r == Validate(td)
       IN  SessionStep(p, [sessions[p] EXCEPT
               !.table_data = td,
               !.table_name = r.self.table_name,
               !.data = r.self.data,
               !.columns = r.self.columns,
               !.pc = IF r.err = NoError THEN "atomic" ELSE "done",
               !.result = IF r.err = NoError THEN NoResult ELSE Raised(r.err)])
    /\ OneCallUnchanged

\* with transaction.atomic(): the one attempt of the call
SessionEnterAtomic(p) ==
    /\ sessions[p].pc = "atomic"
    /\ SessionStep(p, [sessions[p] EXCEPT !.pc = "table_exists",
                                          !.attempts = @ + 1])
    /\ OneCallUnchanged

SessionTableExists(p) ==
    /\ sessions[p].pc = "table_exists"
    /\ LET s == sessions[p]
           exists == _table_exists(View(db, s), s.table_name)
       IN  SessionStep(p, [s EXCEPT
               !.observed = IF exists THEN "present" ELSE "absent",
               !.pc = IF exists THEN "handle_existing_table" ELSE "create_new_table"])
    /\ OneCallUnchanged

SessionHandleExistingTable(p) ==
    /\ sessions[p].pc = "handle_existing_table"
    /\ LET s == sessions[p]
           existing_columns == _get_existing_columns(View(db, s), s.table_name)
           new_columns == Range(s.columns)
           shared_columns == existing_columns \cap new_columns
       IN  IF shared_columns = {}
           THEN SessionAbort(p, [ValidationError("NoSharedColumns") EXCEPT
                                    !.name = s.table_name,
                                    !.existing = Sorted(existing_columns),
                                    !.requested = Sorted(new_columns)])
           ELSE SessionStep(p, [s EXCEPT
                   !.missing_columns = new_columns \ existing_columns,
                   !.decided = new_columns \ existing_columns,
                   !.pc = IF new_columns \ existing_columns # {}
                          THEN "add_missing_columns" ELSE "insert_data"])
    /\ OneCallUnchanged

\* a statement that writes: it waits while another transaction holds a
\* conflicting lock, then runs on what its transaction sees
SessionWrite(p, kind, arg, next) ==
    LET s == sessions[p]
        r == ApplyWrite(View(db, s), s.table_name, Write(kind, arg))
    IN  IF r.err # "none"
        THEN SessionAbort(p, DatabaseError(r.err))
        ELSE SessionStep(p, [next EXCEPT !.writes = Append(s.writes, Write(kind, arg))])

SessionAddMissingColumns(p, column_name) ==
    /\ sessions[p].pc = "add_missing_columns"
    /\ column_name \in sessions[p].missing_columns
    /\ ~AlterWaits(p)
    /\ LET s == sessions[p]
       IN  SessionWrite(p, "ALTER TABLE ADD COLUMN", column_name,
               [s EXCEPT !.missing_columns = @ \ {column_name},
                         !.pc = IF s.missing_columns \ {column_name} = {}
                                THEN "insert_data" ELSE "add_missing_columns"])
    /\ OneCallUnchanged

SessionCreateNewTable(p) ==
    /\ sessions[p].pc = "create_new_table"
    /\ ~CreateWaits(p)
    /\ SessionWrite(p, "CREATE TABLE", sessions[p].columns,
                    [sessions[p] EXCEPT !.pc = "insert_data"])
    /\ OneCallUnchanged

SessionInsertData(p) ==
    /\ sessions[p].pc = "insert_data"
    /\ ~InsertWaits(p)
    /\ LET s == sessions[p]
       IN  SessionWrite(p, "INSERT INTO", s.data.rows[s.rows_inserted + 1],
               [s EXCEPT !.rows_inserted = @ + 1,
                         !.pc = IF s.rows_inserted + 1 = Len(s.data.rows)
                                THEN "notify_postgrest" ELSE "insert_data"])
    /\ OneCallUnchanged

SessionNotifyPostgrest(p) ==
    /\ sessions[p].pc = "notify_postgrest"
    /\ SessionStep(p, [sessions[p] EXCEPT !.pc = "commit", !.signal = "queued"])
    /\ OneCallUnchanged

\* the atomic block of session p is left normally: commit, then return
SessionExitAtomic(p) ==
    /\ sessions[p].pc = "commit"
    /\ LET s == sessions[p]
       IN  /\ db' = Commit(db, View(db, s))
           /\ SetSession(p, [s EXCEPT !.pc = "done", !.writes = <<>>,
                                      !.signal = "delivered",
                                      !.result = Returned(s.table_name, s.rows_inserted)])
    /\ OneCallUnchanged

NextConcurrent ==
    \/ \E p \in Procs : \E td \in ConcRequests(p) : SessionCall(p, td)
    \/ \E p \in Procs : SessionEnterAtomic(p)
    \/ \E p \in Procs : SessionTableExists(p)
    \/ \E p \in Procs : SessionHandleExistingTable(p)
    \/ \E p \in Procs : \E c \in sessions[p].missing_columns :
          SessionAddMissingColumns(p, c)
    \/ \E p \in Procs : SessionCreateNewTable(p)
    \/ \E p \in Procs : SessionInsertData(p)
    \/ \E p \in Procs : SessionNotifyPostgrest(p)
    \/ \E p \in Procs : SessionExitAtomic(p)

SpecConcurrent == InitConcurrent /\ [][NextConcurrent]_vars

\* ================================================================== claims
Passed == pc # "idle" /\ Validate(table_data).err = NoError
Issued(op) == {i \in 1..Len(stmts) : stmts[i].op = op}

\* C1 (atomicity): a call that ends with an exception, whichever step failed,
\* leaves the committed database (tables, their columns, their rows) exactly
\* as it was when the call began.
C1_Atomicity ==
    (pc = "done" /\ result.status = "raised") => db = pre

\* the 2nd INSERT failed after a successful ALTER TABLE and a stored row
C1_Witness ==
    /\ pc = "done"
    /\ result.status = "raised"
    /\ Issued("ALTER TABLE ADD COLUMN") # {}
    /\ rows_inserted >= 1
    /\ stmts[Len(stmts)].op = "INSERT INTO"

\* C2 (monotonicity): no step removes a table, a column of a table or a
\* stored row, or changes a stored value; and every statement issued is one
\* of the six non-destructive kinds.
C2_Monotonicity ==
    [][ /\ \A n \in DOMAIN db :
             /\ n \in DOMAIN db'
             /\ Range(db[n].columns) \subseteq Range(db'[n].columns)
             /\ Len(db[n].rows) <= Len(db'[n].rows)
             /\ \A i \in 1..Len(db[n].rows) : \A c \in UserColumns(db[n]) :
                    db'[n].rows[i][c] = db[n].rows[i][c]
        /\ \A i \in 1..Len(stmts') :
             stmts'[i].op \in {"SELECT to_regclass", "SELECT column_name", "CREATE TABLE",
                               "ALTER TABLE ADD COLUMN", "INSERT INTO", "NOTIFY"} ]_vars

\* a later call has changed a database that already held rows
C2_Witness ==
    /\ pc = "done"
    /\ result.status = "returned"
    /\ \E n \in DOMAIN pre : Len(pre[n].rows) >= 1 /\ db[n] # pre[n]

\* C3 (idempotence of schema growth), as claimed: for every legal table name,
\* once the table exists, a request with the same column set returns, issues
\* no CREATE TABLE and no ALTER TABLE, and adds exactly its rows.
C3_IdempotentGrowth ==
    ( /\ pc = "done" /\ ~fault /\ Passed
      /\ LegalName(table_name)
      /\ table_name \in DOMAIN pre
      /\ Range(columns) = UserColumns(pre[table_name]) )
    => /\ result.status = "returned"
       /\ Issued("CREATE TABLE") = {}
       /\ Issued("ALTER TABLE ADD COLUMN") = {}
       /\ Len(db[table_name].rows) = Len(pre[table_name].rows) + Len(data.rows)

\* C4 (schema evolution), as claimed: when the table exists and shares a
\* column with the request, exactly the columns requested and not existing are
\* added, one ALTER TABLE each, the existing columns stay, all rows are
\* inserted and the rows stored before hold NULL in the added columns.
C4_SchemaEvolution ==
    ( /\ pc = "done" /\ ~fault /\ Passed
      /\ table_name \in DOMAIN pre
      /\ UserColumns(pre[table_name]) \cap Range(columns) # {} )
    => LET old == pre[table_name]
           added == Range(columns) \ UserColumns(old)
       IN  /\ result.status = "returned"
           /\ {stmts[i].cols[1] : i \in Issued("ALTER TABLE ADD COLUMN")} = added
           /\ Cardinality(Issued("ALTER TABLE ADD COLUMN")) = Cardinality(added)
           /\ Range(db[table_name].columns) = Range(old.columns) \cup added
           /\ Len(db[table_name].rows) = Len(old.rows) + Len(data.rows)
           /\ \A i \in 1..Len(old.rows) : \A c \in added :
                  db[table_name].rows[i][c] = NULL

\* C5 (NoSharedColumns), as claimed: when the table exists and shares no
\* column with the request, the call raises NoSharedColumns with both column
\* sets sorted, issues no DDL, INSERT or NOTIFY, and changes nothing.
C5_NoSharedColumns ==
    ( /\ pc = "done" /\ ~fault /\ Passed
      /\ columns # <<>>
      /\ table_name \in DOMAIN pre
      /\ UserColumns(pre[table_name]) \cap Range(columns) = {} )
    => /\ result.status = "raised"
       /\ result.err.exc = "ValidationError"
       /\ result.err.kind = "NoSharedColumns"
       /\ result.err.existing = Sorted(UserColumns(pre[table_name]))
       /\ result.err.requested = Sorted(Range(columns))
       /\ \A i \in 1..Len(stmts) :
              stmts[i].op \in {"SELECT to_regclass", "SELECT column_name"}
       /\ db = pre

\* C6 (create path), as claimed: a validated request whose table is absent
\* creates the table with the primary key followed by the first row's keys in
\* their order, stores every row in input order with each value under its own
\* column, and returns the table name and the number of rows.
C6_CreatePath ==
    ( /\ pc = "done" /\ ~fault /\ Passed
      /\ columns # <<>>
      /\ table_name \notin DOMAIN pre )
    => /\ result = Returned(table_name, Len(data.rows))
       /\ table_name \in DOMAIN db
       /\ db[table_name].columns = <<PRIMARY_KEY_COLUMN>> \o columns
       /\ Len(db[table_name].rows) = Len(data.rows)
       /\ \A i \in 1..Len(data.rows) : \A c \in Range(columns) :
              db[table_name].rows[i][c] = Get(data.rows[i], c)

\* ------------------------------------------------- claims about validation
\* the request has exactly one key and its value is a list
OneTable == pc # "idle" /\ Len(table_data) = 1 /\ table_data[1][2].isList
ReqName == table_data[1][1]
ReqRows == table_data[1][2].rows
AllDicts(rows) == \A i \in 1..Len(rows) : rows[i].isDict
Differing(rows) == {i \in 1..Len(rows) : KeySet(rows[i]) # KeySet(rows[1])}
Least(S) == CHOOSE i \in S : \A k \in S : i <= k
RaisedValidation(kind) ==
    /\ pc = "done"
    /\ result.status = "raised"
    /\ result.err.exc = "ValidationError"
    /\ result.err.kind = kind

\* C7 (name legality), as claimed: a table name, or a key of the first row,
\* that is not a non-empty string over A-Z, a-z, 0-9 and underscore makes
\* validation fail with InvalidTableName respectively InvalidColumnName, and
\* no statement is issued.
C7_NameLegality ==
    OneTable =>
      /\ ~LegalName(ReqName) =>
            RaisedValidation("InvalidTableName") /\ stmts = <<>> /\ db = pre
      /\ ( /\ LegalName(ReqName)
           /\ ReqRows # <<>>
           /\ AllDicts(ReqRows)
           /\ \E k \in KeySet(ReqRows[1]) : ~LegalName(k) ) =>
            RaisedValidation("InvalidColumnName") /\ stmts = <<>> /\ db = pre

\* C8 (column consistency): for a request that breaks no earlier rule (one
\* legal table name, a non-empty list of mappings, legal keys in the first
\* row), if some row's key set differs from the first row's, validation fails
\* with InconsistentColumns naming the lowest 1-based index of such a row,
\* missing = first-row keys minus its keys and extra = its keys minus
\* first-row keys; and InconsistentColumns is never raised when every row is a
\* mapping with the first row's key set.
C8_ColumnConsistency ==
    /\ ( /\ OneTable
         /\ LegalName(ReqName)
         /\ ReqRows # <<>>
         /\ AllDicts(ReqRows)
         /\ \A k \in KeySet(ReqRows[1]) : LegalName(k)
         /\ Differing(ReqRows) # {} )
       => LET m == Least(Differing(ReqRows))
          IN  /\ RaisedValidation("InconsistentColumns")
              /\ result.err.row = m
              /\ result.err.missing = KeySet(ReqRows[1]) \ KeySet(ReqRows[m])
              /\ result.err.extra = KeySet(ReqRows[m]) \ KeySet(ReqRows[1])
    /\ ( /\ OneTable
         /\ ReqRows # <<>>
         /\ AllDicts(ReqRows)
         /\ Differing(ReqRows) = {} )
       => result.err.kind # "InconsistentColumns"

\* the third row is the first to differ, with a missing and an extra column
C8_Witness ==
    /\ RaisedValidation("InconsistentColumns")
    /\ result.err.row = 3
    /\ result.err.missing # {}
    /\ result.err.extra # {}

\* C9 (RowNotObject), as claimed: with one legal table name and a non-empty
\* row sequence, an element that is no mapping, at any position, makes
\* validation fail with the RowNotObject validation error.
C9_RowNotObject ==
    ( /\ OneTable
      /\ LegalName(ReqName)
      /\ ReqRows # <<>>
      /\ ~AllDicts(ReqRows) )
    => RaisedValidation("RowNotObject")

\* the rules a request violates, each judged on its own
EntryViolations(name, value) ==
    (IF ~value.isList THEN {"NotAnArray"} ELSE {})
    \cup (IF ~LegalName(name) THEN {"InvalidTableName"} ELSE {})
    \cup (IF value.isList /\ value.rows = <<>> THEN {"EmptyData"} ELSE {})
    \cup (IF value.isList /\ ~AllDicts(value.rows) THEN {"RowNotObject"} ELSE {})
    \cup (IF /\ value.isList /\ value.rows # <<>> /\ value.rows[1].isDict
             /\ \E k \in KeySet(value.rows[1]) : ~LegalName(k)
          THEN {"InvalidColumnName"} ELSE {})
    \cup (IF /\ value.isList /\ value.rows # <<>> /\ value.rows[1].isDict
             /\ \E i \in 1..Len(value.rows) :
                   value.rows[i].isDict /\ KeySet(value.rows[i]) # KeySet(value.rows[1])
          THEN {"InconsistentColumns"} ELSE {})
Violations(td) ==
    IF Len(td) = 0 THEN {"EmptyRequest"}
    ELSE (IF Len(td) > 1 THEN {"MultipleTables"} ELSE {})
         \cup UNION {EntryViolations(td[i][1], td[i][2]) : i \in 1..Len(td)}
RuleOrder == <<"EmptyRequest", "MultipleTables", "NotAnArray", "InvalidTableName",
               "EmptyData", "RowNotObject", "InvalidColumnName", "InconsistentColumns">>
Earliest(V) == RuleOrder[Least({i \in 1..Len(RuleOrder) : RuleOrder[i] \in V})]

\* C10 (fixed validation order), as claimed: a request that violates more
\* than one rule is rejected with the earliest violated rule in the order
\* EmptyRequest, MultipleTables, NotAnArray, InvalidTableName, EmptyData,
\* RowNotObject, InvalidColumnName, InconsistentColumns.
C10_FixedOrder ==
    (pc # "idle" /\ Cardinality(Violations(table_data)) >= 2)
    => RaisedValidation(Earliest(Violations(table_data)))

\* ------------------------------------------- claims about the database phase
InDatabasePhase == pc \notin {"idle", "done"}
LastStmt == stmts[Len(stmts)]

\* C11 (validation precedes all database I/O), as claimed: a request that
\* breaks any of the validation rules ends with an exception before a
\* transaction is opened: no statement is issued and the database is left as
\* it was.
C11_ValidationFirst ==
    (pc # "idle" /\ Violations(table_data) # {})
    => /\ pc = "done"
       /\ result.status = "raised"
       /\ stmts = <<>>
       /\ db = pre

\* C12 (exactly one table per request): a request with no key raises
\* EmptyRequest, a request with two or more keys raises MultipleTables, in both
\* cases without a statement or a change of the database; and a call that goes
\* on to the database does so for the one table of its request.
C12_OneTablePerRequest ==
    /\ (pc # "idle" /\ Len(table_data) = 0) =>
          RaisedValidation("EmptyRequest") /\ stmts = <<>> /\ db = pre
    /\ (pc # "idle" /\ Len(table_data) >= 2) =>
          RaisedValidation("MultipleTables") /\ stmts = <<>> /\ db = pre
    /\ (InDatabasePhase \/ stmts # <<>>) =>
          /\ Len(table_data) = 1
          /\ table_name = table_data[1][1]
          /\ \A i \in 1..Len(stmts) :
                stmts[i].op = "NOTIFY" \/ stmts[i].table = table_name

\* a request of two tables was rejected while one of its tables held rows
C12_Witness ==
    /\ RaisedValidation("MultipleTables")
    /\ Len(table_data) = 2
    /\ \E i \in 1..2 : table_data[i][1] \in DOMAIN db /\ Len(db[table_data[i][1]].rows) >= 1

\* C13 (EmptyData): a request with one legal table name and an empty list
\* raises EmptyData, issues no statement and creates no table.
C13_EmptyData ==
    (OneTable /\ LegalName(ReqName) /\ ReqRows = <<>>)
    => /\ RaisedValidation("EmptyData")
       /\ result.err.name = ReqName
       /\ stmts = <<>>
       /\ db = pre

\* the empty list was rejected for a table that does not exist
C13_Witness ==
    /\ RaisedValidation("EmptyData")
    /\ OneTable /\ ReqRows = <<>>
    /\ ReqName \notin DOMAIN db

\* C14 (insert count): a call that returns reports as rows_inserted the number
\* of rows of its request, and the table of its name holds exactly that many
\* rows more than when the call began, the new rows after the old ones.
C14_InsertCount ==
    (pc = "done" /\ result.status = "returned")
    => LET before == IF table_name \in DOMAIN pre THEN Len(pre[table_name].rows) ELSE 0
       IN  /\ result.rows_inserted = Len(ReqRows)
           /\ result.table_name = ReqName
           /\ table_name \in DOMAIN db
           /\ Len(db[table_name].rows) = before + Len(ReqRows)
           /\ Cardinality(Issued("INSERT INTO")) = Len(ReqRows)

\* a request of two rows returned for a table that already held a row
C14_Witness ==
    /\ pc = "done"
    /\ result.status = "returned"
    /\ result.rows_inserted = 2
    /\ table_name \in DOMAIN pre
    /\ Len(pre[table_name].rows) >= 1

\* C15 (notification ordering): a call that returns has issued NOTIFY exactly
\* once, as its last statement, after every INSERT and before the commit that
\* delivered it; a call that raises has delivered no notification; and a
\* notification is delivered by the commit only.
C15_NotifyOrdering ==
    /\ (pc = "done" /\ result.status = "returned") =>
          /\ Cardinality(Issued("NOTIFY")) = 1
          /\ LastStmt.op = "NOTIFY"
          /\ LastStmt.table = POSTGREST_NOTIFICATION_CHANNEL
          /\ \A i \in Issued("INSERT INTO") : i < Len(stmts)
          /\ signal = "delivered"
    /\ (pc = "done" /\ result.status = "raised") => signal = "none"
    /\ pc = "commit" => signal = "queued" /\ LastStmt.op = "NOTIFY"
    /\ pc \notin {"commit", "done"} => signal = "none"

\* the commit failed after the NOTIFY had been issued
C15_Witness ==
    /\ pc = "done"
    /\ result.status = "raised"
    /\ stmts # <<>>
    /\ LastStmt.op = "NOTIFY"
    /\ signal = "none"
    /\ db = pre

\* C16 (notify failure is a step failure): when the NOTIFY statement fails,
\* the call ends with an exception and the committed database is the one the
\* call began with: the table it created, the columns it added and the rows
\* it inserted are gone.
C16_NotifyFailure ==
    [][(pc = "notify_postgrest" /\ signal' # "queued")
       => /\ pc' = "done"
          /\ result'.status = "raised"
          /\ db' = pre
          /\ signal' = "none"]_vars

\* the NOTIFY failed after an ALTER TABLE and the INSERT of every row
C16_Witness ==
    /\ pc = "done"
    /\ result.status = "raised"
    /\ fault
    /\ stmts # <<>>
    /\ LastStmt.op = "NOTIFY"
    /\ Issued("ALTER TABLE ADD COLUMN") # {}
    /\ rows_inserted = Len(data.rows)
    /\ rows_inserted >= 1

\* C20 (the primary key never collides with user data), as claimed: a
\* validated request with legal column names, "id" among them or not, creates
\* an absent table with the primary key and the requested columns, and, for an
\* existing table that shares a column with it, adds exactly the requested
\* columns the table lacks.
C20_NoPrimaryKeyCollision ==
    ( /\ pc = "done" /\ ~fault /\ Passed
      /\ columns # <<>>
      /\ \A j \in 1..Len(columns) : LegalName(columns[j])
      /\ LegalName(table_name)
      /\ table_name = Unquoted(table_name) )
    => IF table_name \notin DOMAIN pre
       THEN /\ result.status = "returned"
            /\ table_name \in DOMAIN db
            /\ Range(db[table_name].columns) = {PRIMARY_KEY_COLUMN} \cup Range(columns)
       ELSE UserColumns(pre[table_name]) \cap Range(columns) # {} =>
            /\ result.status = "returned"
            /\ Range(db[table_name].columns)
                   = Range(pre[table_name].columns) \cup Range(columns)
            /\ {stmts[i].cols[1] : i \in Issued("ALTER TABLE ADD COLUMN")}
                   = Range(columns) \ Range(pre[table_name].columns)

\* ------------------------------------------------ claims about concurrency
AllDone == \A p \in Procs : sessions[p].pc = "done"
Winners == {p \in Procs : sessions[p].result.status = "returned"}
Losers == {p \in Procs : sessions[p].result.status = "raised"}
\* the sessions whose values are stored in table n
Owners(cat, n) ==
    IF n \notin DOMAIN cat THEN {}
    ELSE {cat[n].rows[i][c].row : i \in 1..Len(cat[n].rows), c \in UserColumns(cat[n])}
             \ {NULL.row}
Occurrences(q, x) == Cardinality({i \in 1..Len(q) : q[i] = x})

\* C17 (concurrent creation race), as claimed: when two calls for the same
\* table name have both seen the table absent, exactly one of them returns,
\* the other raises, and the table holds the columns and the rows of the one
\* that returned and no value of the other.
C17_CreationRace ==
    ( /\ AllDone
      /\ sessions[1].table_name = sessions[2].table_name
      /\ \A p \in Procs : sessions[p].observed = "absent" )
    => LET n == sessions[1].table_name
       IN  /\ Cardinality(Winners) = 1
           /\ Cardinality(Losers) = 1
           /\ n \in DOMAIN db
           /\ \A w \in Winners :
                 /\ db[n].columns = <<PRIMARY_KEY_COLUMN>> \o sessions[w].columns
                 /\ Len(db[n].rows) = Len(sessions[w].data.rows)
                 /\ Owners(db, n) = {w}

\* C18 (concurrent evolution race), as claimed: when two calls on one
\* existing table have both decided to add the same column, that column is
\* defined exactly once in the end, at most one call returns, a call that
\* raised has left none of its columns and rows, and each call has entered its
\* atomic block exactly once.
C18_EvolutionRace ==
    ( /\ AllDone
      /\ sessions[1].table_name = sessions[2].table_name
      /\ sessions[1].decided \cap sessions[2].decided # {} )
    => LET n == sessions[1].table_name
       IN  /\ \A c \in sessions[1].decided \cap sessions[2].decided :
                 Occurrences(db[n].columns, c) = 1
           /\ Cardinality(Winners) <= 1
           /\ \A l \in Losers :
                 /\ l \notin Owners(db, n)
                 /\ \A c \in sessions[l].decided :
                       c \in Range(db[n].columns) =>
                          \/ c \in Range(pre[n].columns)
                          \/ \E w \in Winners : c \in sessions[w].decided
           /\ \A p \in Procs : sessions[p].attempts = 1

\* C19 (independence across tables), as claimed: of two calls for different
\* table names, each ends as it would have ended running alone on the database
\* the two began with: the same return value or the same error, and the same
\* columns and rows in its own table.
C19_Independence ==
    \A p \in Procs :
        ( /\ sessions[p].pc = "done"
          /\ \A q \in Procs \ {p} :
                /\ sessions[q].pc # "idle"
                /\ Len(sessions[q].table_data) = 1
                /\ Len(sessions[p].table_data) = 1
                /\ sessions[q].table_data[1][1] # sessions[p].table_data[1][1] )
        => LET alone == create_or_update_dataset(pre, sessions[p].table_data)
               n == sessions[p].table_data[1][1]
           IN  /\ sessions[p].result.status = alone.result.status
               /\ sessions[p].result.err.exc = alone.result.err.exc
               /\ sessions[p].result.err.kind = alone.result.err.kind
               /\ sessions[p].result.rows_inserted = alone.result.rows_inserted
               /\ n \in DOMAIN db <=> n \in DOMAIN alone.cat
               /\ n \in DOMAIN db =>
                     /\ Range(db[n].columns) = Range(alone.cat[n].columns)
                     /\ db[n].rows = alone.cat[n].rows

\* ------------------------------------------- claims about request sequences
\* C21 (accumulation over a request sequence): after any sequence of calls,
\* each table holds, besides the primary key, exactly the union of the column
\* sets of the requests for its name that returned, and as many rows as those
\* requests had together; and there is no table without such a request.
C21_Accumulation ==
    pc \in {"idle", "done"} =>
        /\ DOMAIN db = DOMAIN accepted
        /\ \A n \in DOMAIN accepted :
              /\ UserColumns(db[n]) = accepted[n].columns
              /\ Len(db[n].rows) = accepted[n].rows

\* a table grown by three requests that returned, one of which added a column
C21_Witness ==
    /\ pc = "done"
    /\ result.status = "returned"
    /\ Issued("ALTER TABLE ADD COLUMN") = {}
    /\ accepted[table_name].rows = 3
    /\ Len(db[table_name].rows) = 3
    /\ Cardinality(accepted[table_name].columns) = 2
    /\ Cardinality(Range(columns)) = 1
    /\ \E c \in UserColumns(db[table_name]) : db[table_name].rows[1][c] = NULL

\* ------------------------------------------------ claims about the endpoint
ValidationKinds ==
    {"EmptyRequest", "MultipleTables", "NotAnArray", "InvalidTableName", "EmptyData",
     "RowNotObject", "InvalidColumnName", "InconsistentColumns"}

\* C22 (outcome classification at the endpoint): create_dataset answers 200
\* with the table name and the number of rows exactly when the service
\* returned, 400 with the error exactly when the service raised one of the
\* validation errors or NoSharedColumns, and 500 exactly when it raised
\* anything else; it answers nothing else.
C22_OutcomeClassification ==
    (pc = "done" /\ response # NoResponse) =>
        /\ response.status \in {200, 400, 500}
        /\ response.status = 200 <=> result.status = "returned"
        /\ response.status = 200 =>
              /\ response.table_name = ReqName
              /\ response.rows_inserted = Len(ReqRows)
        /\ response.status = 400 <=>
              /\ result.status = "raised"
              /\ result.err.exc = "ValidationError"
              /\ result.err.kind \in ValidationKinds \cup {"NoSharedColumns"}
        /\ response.status = 500 <=>
              /\ result.status = "raised"
              /\ result.err.exc \in {"DatabaseError", "AttributeError"}
        /\ response.status # 200 => response.error = result.err

\* NoSharedColumns, raised inside the transaction, was answered with 400
C22_Witness ==
    /\ pc = "done"
    /\ response.status = 400
    /\ response.error.kind = "NoSharedColumns"
    /\ stmts # <<>>

\* ------------------------------------------------- claims about statements
SqlTexts ==
    {"CREATE TABLE ", " (", " SERIAL PRIMARY KEY, ", ", ", ")", " ", "TEXT",
     "ALTER TABLE ", " ADD COLUMN ", "INSERT INTO ", ") VALUES (", "NOTIFY "}
Slots(q, slot) == {i \in 1..Len(q.text) : q.text[i].slot = slot}
\* the names in the identifier slots of a query, in their order
RECURSIVE IdentifiersOf(_)
IdentifiersOf(text) ==
    IF text = <<>> THEN <<>>
    ELSE (IF Head(text).slot = "Identifier" THEN <<Head(text).name>> ELSE <<>>)
         \o IdentifiersOf(Tail(text))

\* C23 (injection safety): in every CREATE TABLE, ALTER TABLE, INSERT and
\* NOTIFY issued, the text outside the slots is one of the fixed pieces of
\* SQL, the identifier slots hold exactly the table name and the column names
\* of the statement, and the values of a row are bound to as many
\* placeholders and appear nowhere in the query.
C23_InjectionSafety ==
    \A i \in 1..Len(stmts) :
        LET st == stmts[i]
            q == st.query
        IN  st.op \in {"CREATE TABLE", "ALTER TABLE ADD COLUMN", "INSERT INTO", "NOTIFY"} =>
              /\ \A k \in Slots(q, "SQL") : q.text[k].text \in SqlTexts
              /\ IdentifiersOf(q.text) = <<st.table>> \o st.cols
              /\ Cardinality(Slots(q, "Placeholder")) = Len(q.args)
              /\ q.args = st.params
              /\ st.op = "INSERT INTO" =>
                    /\ st.table = table_name
                    /\ st.cols = Keys(data.rows[Cardinality({k \in 1..i : stmts[k].op = "INSERT INTO"})])
                    /\ st.params = [j \in 1..Len(st.cols) |->
                          Get(data.rows[Cardinality({k \in 1..i : stmts[k].op = "INSERT INTO"})],
                              st.cols[j])]
              /\ st.op \in {"CREATE TABLE", "ALTER TABLE ADD COLUMN"} => q.args = <<>>

\* a row of two values was inserted into a table whose name ends in a newline
C23_Witness ==
    /\ stmts # <<>>
    /\ LastStmt.op = "INSERT INTO"
    /\ Len(LastStmt.query.args) = 2
    /\ LastStmt.table = <<"t", LF>>
    /\ Issued("CREATE TABLE") # {}

\* C24 (consistent table identity), as claimed: for every legal table name,
\* the existence check answers true exactly when the table that CREATE TABLE,
\* ALTER TABLE and INSERT would act on under that name exists, and the column
\* read answers that table's columns without the primary key.
C24_TableIdentity ==
    \A n \in {m \in EngineTableNames : LegalName(m)} :
        /\ _table_exists(tx, n) <=> n \in DOMAIN tx
        /\ n \in DOMAIN tx => _get_existing_columns(tx, n) = UserColumns(tx[n])

\* C25 (non-empty column list), as claimed: a request that has passed
\* validation has at least one column: the database phase is never entered
\* with an empty column list, no CREATE TABLE is issued without a user column
\* and no INSERT without a column.
C25_NonEmptyColumns ==
    /\ InDatabasePhase => columns # <<>>
    /\ \A i \in Issued("CREATE TABLE") : Len(stmts[i].cols) >= 2
    /\ \A i \in Issued("INSERT INTO") : stmts[i].cols # <<>>

\* C26 (insert targets only existing columns): whenever an INSERT is issued,
\* the table it names exists in the transaction and has every column the
\* INSERT names, whether the table was there before the call, was created by
\* it or got the columns by its ALTER TABLE statements.
C26_InsertTargets ==
    [][(Len(stmts') = Len(stmts) + 1 /\ stmts'[Len(stmts')].op = "INSERT INTO")
       => LET st == stmts'[Len(stmts')]
          IN  /\ st.table \in DOMAIN tx
              /\ Range(st.cols) \subseteq Range(tx[st.table].columns)
              /\ st.cols # <<>>]_vars

\* an INSERT was issued that names a column added by this call's ALTER TABLE
C26_Witness ==
    /\ stmts # <<>>
    /\ LastStmt.op = "INSERT INTO"
    /\ \E i \in Issued("ALTER TABLE ADD COLUMN") : stmts[i].cols[1] \in Range(LastStmt.cols)
    /\ rows_inserted >= 1

\* C27 (frame): a call for one table name, at every step and however it ends,
\* leaves every table of another name as it was when the call began, in the
\* committed database and in its transaction; a call rejected for having no
\* or several table names leaves every table so.
C27_Frame ==
    pc # "idle" =>
        LET own == IF Len(table_data) = 1 THEN {table_data[1][1]} ELSE {}
        IN  \A n \in (DOMAIN pre \cup DOMAIN db \cup DOMAIN tx) \ own :
                /\ n \in DOMAIN pre
                /\ n \in DOMAIN db /\ db[n] = pre[n]
                /\ n \in DOMAIN tx /\ tx[n] = pre[n]

\* a call has changed its table while another table held rows
C27_Witness ==
    /\ pc = "done"
    /\ result.status = "returned"
    /\ db[table_name] # IF table_name \in DOMAIN pre THEN pre[table_name] ELSE <<>>
    /\ \E n \in DOMAIN pre \ {table_name} : Len(pre[n].rows) >= 1 /\ db[n] = pre[n]

====
